---- MODULE Spec2Model ----
(***************************************************************************)
(* Model of processor.py: the file-backed ProgressTracker, the parallel    *)
(* ingestion run of process_13f_data with its two worker functions, the    *)
(* database tables the workers write, and the identifier remediation of    *)
(* clean_cusips as post_process_data calls it.                             *)
(*                                                                         *)
(* Strings are sequences of tokens ("2024", "_", "Q", "1", ".txt"), so     *)
(* f-strings, split("_"), basename and endswith are computed, not assumed. *)
(* A Python value that is formatted into a key is tagged int or str.       *)
(***************************************************************************)
EXTENDS Integers, Sequences, FiniteSets, Bags, TLC

VARIABLES
    file,       \* the progress file on disk: [exists, text]
    data,       \* ProgressTracker.data of the live parent process
    spc,        \* position of the process that owns the tracker (store spec)
    call,       \* arguments of the tracker call in progress / last returned
    ncalls,     \* tracker calls made so far (store spec)
    filings,    \* committed rows of table filings (accession numbers)
    holdings,   \* committed rows of table holdings (a bag: rows may repeat)
    wk,         \* per work item: the worker call's position and transaction
    queue,      \* progress_queue: completion events not yet received
    agg,        \* locals of process_13f_data in the parent process
    runs,       \* invocations of process_13f_data started so far
    crashes,    \* process terminations so far
    rows1,      \* row counts observed when the first invocation returned
    missing,    \* quarter directories of INDIVIDUAL_FILINGS_DIR absent on disk
    ftd,        \* ftd_cusips: the reference set of identifiers
    tbl,        \* committed rows of holdings as the remediation pass sees them
    cur,        \* the same rows inside the open transaction of clean_cusips
    cpc,        \* position of post_process_data / clean_cusips, and the
                \* statement that raised
    fixes,      \* all_fixes: the short-code repairs computed, in order
    stem,       \* argument of compute_check_digit
    digit       \* what compute_check_digit returned

vars == <<file, data, spc, call, ncalls, filings, holdings, wk, queue, agg,
          runs, crashes, rows1, missing, ftd, tbl, cur, cpc, fixes, stem,
          digit>>

storeVars == <<file, data, spc, call, ncalls, crashes>>
runVars   == <<filings, holdings, wk, queue, agg, runs, rows1>>
fixVars   == <<ftd, tbl, cur, cpc, fixes, stem, digit>>
restVars  == <<missing, fixVars>>

(***************************************************************************)
(* Bounds of the model.                                                    *)
(***************************************************************************)
NumItems   == 2   \* distinct item names offered to the tracker calls
MaxCalls   == 3   \* tracker calls per behaviour of the store spec
NumFiles   == 1   \* well-formed .txt documents in the 2024_Q1 directory
MaxRuns    == 2   \* invocations of process_13f_data per behaviour
MaxCrashes == 1   \* process terminations per behaviour

(***************************************************************************)
(* Python values and strings.                                              *)
(***************************************************************************)
IntV(n) == [t |-> "int", n |-> n, s |-> <<>>]
StrV(s) == [t |-> "str", n |-> 0, s |-> s]

\* str(v) as used by an f-string placeholder {v}
Fmt(v) == IF v.t = "int" THEN <<ToString(v.n)>> ELSE v.s

RECURSIVE SeqToSet(_)
SeqToSet(s) == IF s = <<>> THEN {} ELSE {Head(s)} \cup SeqToSet(Tail(s))

\* Python's "x in list"
InList(x, s) == \E i \in 1..Len(s) : s[i] = x

RECURSIVE SetToSeq(_)
SetToSeq(S) ==
    IF S = {} THEN <<>>
    ELSE LET x == CHOOSE y \in S : TRUE IN <<x>> \o SetToSeq(S \ {x})

(***************************************************************************)
(* ProgressTracker                                                         *)
(***************************************************************************)
EmptyLists == [processed |-> <<>>, failed |-> <<>>]

\* the structure _load_progress returns when no file exists
\* (last_updated is a wall-clock stamp no code reads; it is left out)
NewProgress ==
    [structured_data |-> EmptyLists, individual_filings |-> [k \in {} |-> EmptyLists]]

\* key = f"{year}_{quarter}" of mark_processed and mark_failed
MarkKey(year, quarter) == Fmt(year) \o <<"_">> \o Fmt(quarter)

\* key = f"{year}_Q{quarter}" of is_processed and get_processed_count
LookupKey(year, quarter) == Fmt(year) \o <<"_", "Q">> \o Fmt(quarter)

\* mutant: the membership test is dropped
AppendAlways(lst, item) == Append(lst, item)

\* "if item not in lst: lst.append(item)"
AppendIfAbsent(lst, item) == IF InList(item, lst) THEN lst ELSE Append(lst, item)

\* mutant: the per-quarter entry is re-created on every call
WithKeyReset(ind, key) == (key :> EmptyLists) @@ ind

\* "if key not in self.data[category]: self.data[category][key] = {...}"
WithKey(ind, key) == IF key \in DOMAIN ind THEN ind ELSE (key :> EmptyLists) @@ ind

\* the in-memory part of mark_processed / mark_failed (which is "processed" or
\* "failed"); save_progress follows it
MarkInMemory(d, which, category, year, quarter, item) ==
    IF category = "structured_data"
    THEN [d EXCEPT !.structured_data[which] = AppendIfAbsent(@, item)]
    ELSE LET key == MarkKey(year, quarter)
             ind == WithKey(d.individual_filings, key)
         IN  [d EXCEPT !.individual_filings =
                 [ind EXCEPT ![key][which] = AppendIfAbsent(@, item)]]

\* mutant: marking an item processed empties the failed list beside it
mark_processed_clearing(d, category, year, quarter, item) ==
    LET m == MarkInMemory(d, "processed", category, year, quarter, item)
    IN  IF category = "structured_data"
        THEN [m EXCEPT !.structured_data.failed = <<>>]
        ELSE [m EXCEPT !.individual_filings[MarkKey(year, quarter)].failed = <<>>]

mark_processed(d, category, year, quarter, item) ==
    MarkInMemory(d, "processed", category, year, quarter, item)

mark_failed(d, category, year, quarter, item) ==
    MarkInMemory(d, "failed", category, year, quarter, item)

\* mutant: an item in the failed list counts as processed too
is_processed_or_failed(d, category, year, quarter, item) ==
    IF category = "structured_data"
    THEN InList(item, d.structured_data.processed)
         \/ InList(item, d.structured_data.failed)
    ELSE LET key == LookupKey(year, quarter)
         IN  /\ key \in DOMAIN d.individual_filings
             /\ \/ InList(item, d.individual_filings[key].processed)
                \/ InList(item, d.individual_filings[key].failed)

is_processed(d, category, year, quarter, item) ==
    IF category = "structured_data"
    THEN InList(item, d.structured_data.processed)
    ELSE LET key == LookupKey(year, quarter)
         IN  /\ key \in DOMAIN d.individual_filings
             /\ InList(item, d.individual_filings[key].processed)

get_processed_count(d, category, year, quarter) ==
    IF category = "structured_data"
    THEN Len(d.structured_data.processed)
    ELSE LET key == LookupKey(year, quarter)
         IN  IF key \in DOMAIN d.individual_filings
             THEN Len(d.individual_filings[key].processed)
             ELSE 0

(***************************************************************************)
(* The progress file.  json.dump writes the document front to back; the    *)
(* text is modelled as its sequence of members between an opening and a    *)
(* closing brace, so a cut-off write is a proper prefix and does not parse.*)
(***************************************************************************)
Member(k, p, f) == [k |-> k, p |-> p, f |-> f]
OpenBrace  == Member(<<"{">>, <<>>, <<>>)
CloseBrace == Member(<<"}">>, <<>>, <<>>)

NoFile == [exists |-> FALSE, text |-> <<>>]

\* json.dump(self.data, f)
JsonDump(d) ==
    LET keys == SetToSeq(DOMAIN d.individual_filings)
    IN  <<OpenBrace,
          Member(<<"structured_data">>, d.structured_data.processed,
                 d.structured_data.failed)>>
        \o [i \in 1..Len(keys) |->
               Member(keys[i], d.individual_filings[keys[i]].processed,
                      d.individual_filings[keys[i]].failed)]
        \o <<CloseBrace>>

\* json.load succeeds only on a complete document
JsonParses(text) ==
    /\ Len(text) >= 3
    /\ text[1] = OpenBrace
    /\ text[Len(text)] = CloseBrace

JsonLoad(text) ==
    LET body == SubSeq(text, 3, Len(text) - 1)
    IN  [structured_data |-> [processed |-> text[2].p, failed |-> text[2].f],
         individual_filings |->
            [k \in {body[i].k : i \in 1..Len(body)} |->
                LET m == CHOOSE x \in SeqToSet(body) : x.k = k
                IN  [processed |-> m.p, failed |-> m.f]]]

\* _load_progress raises (json.JSONDecodeError) exactly when this is FALSE
LoadSucceeds(f) == (~f.exists) \/ JsonParses(f.text)

load_progress(f) == IF f.exists THEN JsonLoad(f.text) ELSE NewProgress

\* open(self.filename, "w"): the file exists and is empty
OpenForWrite == [exists |-> TRUE, text |-> <<>>]

\* save_progress after json.dump and close
save_progress(d) == [exists |-> TRUE, text |-> JsonDump(d)]

\* what a process killed inside save_progress leaves on disk: any proper prefix
CutOffWrites(d) ==
    {[exists |-> TRUE, text |-> SubSeq(JsonDump(d), 1, n)] :
        n \in 0..(Len(JsonDump(d)) - 1)}

(***************************************************************************)
(* Store specification: one process that owns a ProgressTracker and calls  *)
(* mark_processed / mark_failed with arbitrary arguments; the process may  *)
(* be killed and a new one constructed from the file.                      *)
(***************************************************************************)
Categories == {"structured_data", "individual_filings"}

\* (year, quarter) as ints, and as the directory-name parts "2024", "Q1"
YearQuarterArgs ==
    {<<IntV(2024), IntV(1)>>, <<StrV(<<"2024">>), StrV(<<"Q", "1">>)>>}

ItemNames == {<<"item", ToString(i)>> : i \in 1..NumItems}

NoCall ==
    [op |-> "none", category |-> "structured_data", year |-> IntV(0),
     quarter |-> IntV(0), item |-> <<>>, prev |-> NewProgress]

\* the pipeline's variables stay at rest in the store specification
RunAtRest ==
    /\ filings = {}
    /\ holdings = EmptyBag
    /\ wk = <<>>
    /\ queue = <<>>
    /\ agg = [pc |-> "init", tasks |-> <<>>, total |-> 0, completed |-> 0]
    /\ runs = 0
    /\ rows1 = <<>>
    /\ missing = {}

\* the remediation pass's variables stay at rest outside its specification
CleanAtRest ==
    /\ ftd = {}
    /\ tbl = <<>>
    /\ cur = <<>>
    /\ cpc = [pc |-> "rest", err |-> "none"]
    /\ fixes = <<>>

FixAtRest ==
    /\ CleanAtRest
    /\ stem = <<>>
    /\ digit = <<>>

\* the tracker's variables stay at rest in the remediation specifications
StoreAtRest ==
    /\ file = NoFile
    /\ data = load_progress(NoFile)
    /\ spc = "idle"
    /\ call = NoCall
    /\ ncalls = 0
    /\ crashes = 0

StoreInit ==
    /\ StoreAtRest
    /\ RunAtRest
    /\ FixAtRest

\* mark_processed(...) up to and including open(self.filename, "w")
StoreMarkProcessed ==
    \E c \in Categories, yq \in YearQuarterArgs, it \in ItemNames :
        /\ spc = "idle"
        /\ ncalls < MaxCalls
        /\ data' = mark_processed(data, c, yq[1], yq[2], it)
        /\ file' = OpenForWrite
        /\ call' = [op |-> "mark_processed", category |-> c, year |-> yq[1],
                    quarter |-> yq[2], item |-> it, prev |-> data]
        /\ spc' = "saving"
        /\ ncalls' = ncalls + 1
        /\ UNCHANGED <<restVars, crashes, runVars>>

\* mark_failed(...) up to and including open(self.filename, "w")
StoreMarkFailed ==
    \E c \in Categories, yq \in YearQuarterArgs, it \in ItemNames :
        /\ spc = "idle"
        /\ ncalls < MaxCalls
        /\ data' = mark_failed(data, c, yq[1], yq[2], it)
        /\ file' = OpenForWrite
        /\ call' = [op |-> "mark_failed", category |-> c, year |-> yq[1],
                    quarter |-> yq[2], item |-> it, prev |-> data]
        /\ spc' = "saving"
        /\ ncalls' = ncalls + 1
        /\ UNCHANGED <<restVars, crashes, runVars>>

\* json.dump and close: the call returns
StoreSaveWrite ==
    /\ spc = "saving"
    /\ file' = save_progress(data)
    /\ spc' = "idle"
    /\ UNCHANGED <<restVars, data, call, ncalls, crashes, runVars>>

\* the process is killed, between calls or inside save_progress
StoreKill ==
    /\ spc \in {"idle", "saving"}
    /\ crashes < MaxCrashes
    /\ IF spc = "saving" THEN file' \in CutOffWrites(data) ELSE file' = file
    /\ spc' = "down"
    /\ crashes' = crashes + 1
    /\ UNCHANGED <<restVars, data, call, ncalls, filings, holdings, wk, queue, agg, runs, rows1>>

\* a new process constructs ProgressTracker(): _load_progress
StoreRestart ==
    /\ spc = "down"
    /\ IF LoadSucceeds(file)
       THEN data' = load_progress(file) /\ spc' = "idle"
       ELSE data' = data /\ spc' = "raised"
    /\ UNCHANGED <<restVars, file, call, ncalls, crashes, runVars>>

StoreNext ==
    \/ StoreMarkProcessed
    \/ StoreMarkFailed
    \/ StoreSaveWrite
    \/ StoreKill
    \/ StoreRestart

StoreSpec == StoreInit /\ [][StoreNext]_vars

(***************************************************************************)
(* Inputs of an ingestion run: the quarter list, the directories on disk   *)
(* and the contents of the folders and documents.                          *)
(***************************************************************************)
\* "y < 2024" / "y >= 2024": the year at which the source format changes
FormatBoundaryYear == 2024

\* the argument of process_13f_data
Quarters == <<<<2023, 4>>, <<2024, 1>>, <<2024, 2>>>>

STRUCTURED_DATA_DIR    == <<"STRUCTURED_DATA_DIR">>
INDIVIDUAL_FILINGS_DIR == <<"INDIVIDUAL_FILINGS_DIR">>

\* f"{y}_Q{q}"
QuarterName(y, q) == <<ToString(y), "_", "Q", ToString(q)>>

\* os.path.exists of a per-document quarter directory
DirExists(dirname) == dirname \notin missing

\* os.listdir of a per-document quarter directory that exists: 2024_Q1 holds
\* the documents and an index file, 2024_Q2 has not been downloaded into yet
ListDir(dirname) ==
    IF dirname = QuarterName(2024, 1)
    THEN {<<"doc", ToString(i), ".txt">> : i \in 1..NumFiles} \cup {<<"index", ".json">>}
    ELSE {}

\* the directories whose absence the model considers
MissingChoices == {{}, {QuarterName(2024, 2)}}

\* filename.endswith(".txt")
EndsWithTxt(name) == Len(name) > 0 /\ name[Len(name)] = ".txt"

\* os.path.basename / os.path.dirname on a path held as its components
Basename(path) == path[Len(path)]
Dirname(path)  == SubSeq(path, 1, Len(path) - 1)

\* s.split("_")
RECURSIVE Split(_)
Split(s) ==
    IF \A i \in 1..Len(s) : s[i] # "_" THEN <<s>>
    ELSE LET i == CHOOSE j \in 1..Len(s) :
                     s[j] = "_" /\ \A k \in 1..(j - 1) : s[k] # "_"
         IN  <<SubSeq(s, 1, i - 1)>> \o Split(SubSeq(s, i + 1, Len(s)))

\* int(s) of a one-token decimal string
IntOf(s) == CHOOSE n \in 0..2100 : <<ToString(n)>> = s

IsFolder(path) == path[1] = STRUCTURED_DATA_DIR[1]

\* accession numbers of SUBMISSION.tsv of a bulk folder
SubmissionRows(path) == {<<"F">> \o Basename(path)}

\* rows of INFOTABLE.tsv: one of a filing of the folder, one whose accession
\* number is in no SUBMISSION.tsv
InfotableRows(path) ==
    {[accession_number |-> <<"F">> \o Basename(path), line |-> 1],
     [accession_number |-> <<"X">> \o Basename(path), line |-> 2]}

\* parse_xml_filing of a well-formed document: (filing_data, holdings)
parse_xml_filing(path) ==
    [accession_number |-> <<"D">> \o Basename(path),
     holdings |-> {[accession_number |-> <<"D">> \o Basename(path), line |-> 1]}]

\* a row of table holdings; the surrogate filing id is represented by the
\* accession number of the filings row it was generated for
HoldingRow(id, r) == [filing_id |-> id, line |-> r.line]

(***************************************************************************)
(* Workers: process_structured_data and process_individual_filing          *)
(***************************************************************************)
Queued   == [pc |-> "queued", txF |-> {}, txH |-> EmptyBag]
Returned == {"done", "parse_failed", "aborted", "rolledback"}
Running  == {"started", "connected", "filings_in", "holdings_in", "committed"}

\* cpu_count(): worker processes of the pool
PoolSize == 2

Dispatched == {agg.tasks[k] : k \in 1..Len(agg.tasks)}

\* mutant: the pool hands a rolled-back item to a worker again
WStartAgain(i) ==
    /\ agg.pc \in {"loop", "saving", "empty", "join"}
    /\ wk[i].pc \in {"queued", "rolledback"}
    /\ Cardinality({j \in Dispatched : wk[j].pc \in Running}) < PoolSize
    /\ wk' = [wk EXCEPT ![i].pc = "started"]
    /\ UNCHANGED <<restVars, storeVars, filings, holdings, queue, agg, runs, rows1>>

\* a free pool process takes the next task of the pool's task queue
WStart(i) ==
    /\ agg.pc \in {"loop", "saving", "empty", "join"}
    /\ wk[i].pc = "queued"
    /\ \A k \in 1..Len(agg.tasks) :
          agg.tasks[k] = i => \A j \in 1..(k - 1) : wk[agg.tasks[j]].pc # "queued"
    /\ Cardinality({j \in Dispatched : wk[j].pc \in Running}) < PoolSize
    /\ wk' = [wk EXCEPT ![i].pc = "started"]
    /\ UNCHANGED <<restVars, storeVars, filings, holdings, queue, agg, runs, rows1>>

\* read and transform the source, then psycopg2.connect; a document with fewer
\* than two XML sections returns early, any exception is logged by the outer
\* handler
WLoad(i) ==
    /\ wk[i].pc = "started"
    /\ \/ wk' = [wk EXCEPT ![i].pc = "connected"]
       \/ wk' = [wk EXCEPT ![i].pc = "aborted"]
       \/ ~IsFolder(i) /\ wk' = [wk EXCEPT ![i].pc = "parse_failed"]
    /\ UNCHANGED <<restVars, storeVars, filings, holdings, queue, agg, runs, rows1>>

\* mutant: the INSERT without ON CONFLICT DO NOTHING
NewFilingsAll(i, committed) ==
    IF IsFolder(i) THEN SubmissionRows(i)
    ELSE {parse_xml_filing(i).accession_number}

\* accession numbers a worker's INSERT ... ON CONFLICT DO NOTHING adds
NewFilings(i, committed) ==
    IF IsFolder(i) THEN SubmissionRows(i) \ committed
    ELSE {parse_xml_filing(i).accession_number} \ committed

\* INSERT INTO filings; an exception rolls the transaction back
WInsertFilings(i) ==
    /\ wk[i].pc = "connected"
    /\ \/ wk' = [wk EXCEPT ![i].pc = "filings_in", ![i].txF = NewFilings(i, filings)]
       \/ wk' = [wk EXCEPT ![i].pc = "rolledback"]
    /\ UNCHANGED <<restVars, storeVars, filings, holdings, queue, agg, runs, rows1>>

\* mutant: the per-document path inserts holdings without "if filing_id:"
HoldingsToInsertAlways(i, visible, own) ==
    IF IsFolder(i)
    THEN SetToBag({HoldingRow(r.accession_number, r) :
                      r \in {x \in InfotableRows(i) : x.accession_number \in visible}})
    ELSE SetToBag({HoldingRow(r.accession_number, r) :
                      r \in parse_xml_filing(i).holdings})

\* the holdings a worker inserts, given the filings its transaction sees
\* (visible) and those it inserted itself (own)
HoldingsToInsert(i, visible, own) ==
    IF IsFolder(i)
    THEN SetToBag({HoldingRow(r.accession_number, r) :
                      r \in {x \in InfotableRows(i) : x.accession_number \in visible}})
    ELSE IF own # {}
         THEN SetToBag({HoldingRow(r.accession_number, r) :
                           r \in parse_xml_filing(i).holdings})
         ELSE EmptyBag

\* mutant: an exception in the holdings insert leaves the filings committed
WInsertHoldingsPartial(i) ==
    /\ wk[i].pc = "filings_in"
    /\ \/ /\ wk' = [wk EXCEPT ![i].pc = "holdings_in",
                              ![i].txH = HoldingsToInsert(i, filings \cup wk[i].txF,
                                                          wk[i].txF)]
          /\ filings' = filings
       \/ /\ IsFolder(i) \/ wk[i].txF # {}
          /\ wk' = [wk EXCEPT ![i] = [pc |-> "rolledback", txF |-> {}, txH |-> EmptyBag]]
          /\ filings' = filings \cup wk[i].txF
    /\ UNCHANGED <<restVars, storeVars, holdings, queue, agg, runs, rows1>>

\* INSERT INTO holdings; an exception rolls the transaction back
WInsertHoldings(i) ==
    /\ wk[i].pc = "filings_in"
    /\ \/ wk' = [wk EXCEPT ![i].pc = "holdings_in",
                           ![i].txH = HoldingsToInsert(i, filings \cup wk[i].txF,
                                                       wk[i].txF)]
       \/ /\ IsFolder(i) \/ wk[i].txF # {}
          /\ wk' = [wk EXCEPT ![i] = [pc |-> "rolledback", txF |-> {}, txH |-> EmptyBag]]
    /\ UNCHANGED <<restVars, storeVars, filings, holdings, queue, agg, runs, rows1>>

\* conn.commit()
WCommit(i) ==
    /\ wk[i].pc = "holdings_in"
    /\ filings' = filings \cup wk[i].txF
    /\ holdings' = holdings (+) wk[i].txH
    /\ wk' = [wk EXCEPT ![i] = [pc |-> "committed", txF |-> {}, txH |-> EmptyBag]]
    /\ UNCHANGED <<restVars, storeVars, queue, agg, runs, rows1>>

\* the completion event a worker puts on progress_queue
Event(i) ==
    IF IsFolder(i)
    THEN LET parts   == Split(Basename(i))
             year    == parts[1]
             quarter == parts[2]
         IN  [category |-> "structured_data", file_path |-> i,
              year |-> IntV(IntOf(year)), quarter |-> IntV(IntOf(<<quarter[2]>>)),
              item |-> year \o <<"_", "Q">> \o <<quarter[2]>>]
    ELSE LET parts == Split(Basename(Dirname(i)))
         IN  [category |-> "individual_filings", file_path |-> i,
              year |-> StrV(parts[1]), quarter |-> StrV(parts[2]),
              item |-> Basename(i)]

\* mutant: the worker records its own completion through the module-level
\* progress_tracker instead of leaving it to the parent
WPostAndMark(i) ==
    /\ wk[i].pc = "committed"
    /\ queue' = Append(queue, Event(i))
    /\ wk' = [wk EXCEPT ![i].pc = "done"]
    /\ data' = mark_processed(data, Event(i).category, Event(i).year,
                              Event(i).quarter, Event(i).item)
    /\ file' = save_progress(data')
    /\ UNCHANGED <<restVars, spc, call, ncalls, crashes, filings, holdings, agg, runs, rows1>>

\* mutant: the event is put before conn.commit(), which is then skipped
WPostEarly(i) ==
    /\ wk[i].pc \in {"holdings_in", "committed"}
    /\ queue' = Append(queue, Event(i))
    /\ wk' = [wk EXCEPT ![i] = [pc |-> "done", txF |-> {}, txH |-> EmptyBag]]
    /\ UNCHANGED <<restVars, storeVars, filings, holdings, agg, runs, rows1>>

\* progress_queue.put(...), close the connection and return
WPost(i) ==
    /\ wk[i].pc = "committed"
    /\ queue' = Append(queue, Event(i))
    /\ wk' = [wk EXCEPT ![i].pc = "done"]
    /\ UNCHANGED <<restVars, storeVars, filings, holdings, agg, runs, rows1>>

WorkerStep ==
    \/ \E i \in DOMAIN wk : WStart(i)
    \/ \E i \in DOMAIN wk : WLoad(i)
    \/ \E i \in DOMAIN wk : WInsertFilings(i)
    \/ \E i \in DOMAIN wk : WInsertHoldings(i)
    \/ \E i \in DOMAIN wk : WCommit(i)
    \/ \E i \in DOMAIN wk : WPost(i)

(***************************************************************************)
(* process_13f_data in the parent process                                  *)
(***************************************************************************)
structured_data_quarters ==
    SelectSeq(Quarters, LAMBDA yq : yq[1] < FormatBoundaryYear)

individual_filing_quarters ==
    SelectSeq(Quarters, LAMBDA yq : yq[1] >= FormatBoundaryYear)

RECURSIVE remaining_structured_data(_, _)
remaining_structured_data(d, qs) ==
    IF qs = <<>> THEN <<>>
    ELSE LET y == Head(qs)[1]
             q == Head(qs)[2]
         IN  (IF is_processed(d, "structured_data", IntV(y), IntV(q), QuarterName(y, q))
              THEN <<>>
              ELSE <<<<STRUCTURED_DATA_DIR[1], QuarterName(y, q)>>>>)
             \o remaining_structured_data(d, Tail(qs))

RECURSIVE remaining_individual_filings(_, _)
remaining_individual_filings(d, qs) ==
    IF qs = <<>> THEN <<>>
    ELSE LET y == Head(qs)[1]
             q == Head(qs)[2]
             names == SetToSeq({f \in ListDir(QuarterName(y, q)) :
                         /\ EndsWithTxt(f)
                         /\ ~is_processed(d, "individual_filings", IntV(y), IntV(q), f)})
         IN  [k \in 1..Len(names) |->
                 <<INDIVIDUAL_FILINGS_DIR[1], QuarterName(y, q), names[k]>>]
             \o remaining_individual_filings(d, Tail(qs))

\* AsyncResult.ready() of the starmap_async call of one track
Ready(folders) ==
    \A i \in Dispatched : IsFolder(i) = folders => wk[i].pc \in Returned

\* mutant: "or" in place of "and"
EitherReady == Ready(TRUE) \/ Ready(FALSE)

\* "structured_data_results.ready() and individual_filing_results.ready()"
BothReady == Ready(TRUE) /\ Ready(FALSE)

AtRest == [pc |-> "init", tasks |-> <<>>, total |-> 0, completed |-> 0]

\* the os.listdir calls of the remaining_individual_filings comprehension
\* all return: each per-document quarter's directory exists
EnumerationSucceeds ==
    \A k \in 1..Len(individual_filing_quarters) :
        DirExists(QuarterName(individual_filing_quarters[k][1],
                              individual_filing_quarters[k][2]))

\* ProgressTracker(), the two remaining-work lists, the pool and the two
\* starmap_async calls; a progress file that does not parse raises, and so
\* does os.listdir of a directory that does not exist, with the tracker built
AggStart ==
    /\ agg.pc \in {"init", "returned", "dead"}
    /\ runs < MaxRuns
    /\ runs' = runs + 1
    /\ IF LoadSucceeds(file) /\ EnumerationSucceeds
       THEN LET d     == load_progress(file)
                tasks == remaining_structured_data(d, structured_data_quarters)
                         \o remaining_individual_filings(d, individual_filing_quarters)
            IN  /\ data' = d
                /\ wk' = [i \in {tasks[k] : k \in 1..Len(tasks)} |-> Queued]
                /\ agg' = [pc |-> "loop", tasks |-> tasks, total |-> Len(tasks),
                           completed |-> 0]
       ELSE /\ agg' = [agg EXCEPT !.pc = "raised"]
            /\ data' = IF LoadSucceeds(file) THEN load_progress(file) ELSE data
            /\ UNCHANGED wk
    /\ queue' = <<>>
    /\ UNCHANGED <<restVars, file, spc, call, ncalls, crashes, filings, holdings, rows1>>

\* progress_queue.get returned a message: mark_processed up to and including
\* open(self.filename, "w")
AggReceive ==
    /\ agg.pc = "loop"
    /\ agg.completed < agg.total
    /\ queue # <<>>
    /\ LET m == Head(queue)
       IN  data' = mark_processed(data, m.category, m.year, m.quarter, m.item)
    /\ file' = OpenForWrite
    /\ queue' = Tail(queue)
    /\ agg' = [agg EXCEPT !.pc = "saving"]
    /\ UNCHANGED <<restVars, spc, call, ncalls, crashes, filings, holdings, wk, runs, rows1>>

\* json.dump and close; progress.update; completed_tasks += 1
AggSaved ==
    /\ agg.pc = "saving"
    /\ file' = save_progress(data)
    /\ agg' = [agg EXCEPT !.pc = "loop", !.completed = @ + 1]
    /\ UNCHANGED <<restVars, data, spc, call, ncalls, crashes, filings, holdings, wk, queue,
                   runs, rows1>>

\* progress_queue.get(timeout=1) raised Empty
AggTimeout ==
    /\ agg.pc = "loop"
    /\ agg.completed < agg.total
    /\ queue = <<>>
    /\ agg' = [agg EXCEPT !.pc = "empty"]
    /\ UNCHANGED <<restVars, storeVars, filings, holdings, wk, queue, runs, rows1>>

\* the except branch: break when both results are ready, else continue
AggReadyCheck ==
    /\ agg.pc = "empty"
    /\ agg' = [agg EXCEPT !.pc = IF BothReady THEN "join" ELSE "loop"]
    /\ UNCHANGED <<restVars, storeVars, filings, holdings, wk, queue, runs, rows1>>

\* the while condition "completed_tasks < total_tasks" is false
AggLoopExit ==
    /\ agg.pc = "loop"
    /\ ~(agg.completed < agg.total)
    /\ agg' = [agg EXCEPT !.pc = "join"]
    /\ UNCHANGED <<restVars, storeVars, filings, holdings, wk, queue, runs, rows1>>

\* both results' get() return, the pool and the manager are left, and the
\* final save_progress opens the file
AggJoin ==
    /\ agg.pc = "join"
    /\ \A i \in Dispatched : wk[i].pc \in Returned
    /\ file' = OpenForWrite
    /\ agg' = [agg EXCEPT !.pc = "final_saving"]
    /\ UNCHANGED <<restVars, data, spc, call, ncalls, crashes, filings, holdings, wk, queue,
                   runs, rows1>>

RowCounts == <<Cardinality(filings), BagCardinality(holdings)>>

AllSucceeded == \A i \in Dispatched : wk[i].pc = "done"

\* the final save_progress completes and process_13f_data returns
AggFinalSave ==
    /\ agg.pc = "final_saving"
    /\ file' = save_progress(data)
    /\ agg' = [agg EXCEPT !.pc = "returned"]
    /\ rows1' = IF rows1 = <<>> THEN <<RowCounts, AllSucceeded>> ELSE rows1
    /\ UNCHANGED <<restVars, data, spc, call, ncalls, crashes, filings, holdings, wk, queue, runs>>

AggStep ==
    \/ AggReceive
    \/ AggSaved
    \/ AggTimeout
    \/ AggReadyCheck
    \/ AggLoopExit
    \/ AggJoin
    \/ AggFinalSave

\* the parent and its workers are killed: open transactions are rolled back by
\* the database, the queue and the in-memory tracker are gone, and a
\* save_progress in progress leaves a cut-off file
Crash ==
    /\ agg.pc \in {"loop", "saving", "empty", "join", "final_saving"}
    /\ crashes < MaxCrashes
    /\ crashes' = crashes + 1
    /\ IF agg.pc \in {"saving", "final_saving"}
       THEN file' \in CutOffWrites(data)
       ELSE file' = file
    /\ wk' = [i \in DOMAIN wk |-> Queued]
    /\ queue' = <<>>
    /\ agg' = [agg EXCEPT !.pc = "dead"]
    /\ UNCHANGED <<restVars, data, spc, call, ncalls, filings, holdings, runs, rows1>>

\* progress files an earlier version may have left: none, or one that lists
\* the folder and the first document as failed
InitialFiles ==
    {NoFile,
     save_progress(
        mark_failed(
            mark_failed(NewProgress, "structured_data", IntV(2023), IntV(4),
                        QuarterName(2023, 4)),
            "individual_filings", StrV(<<"2024">>), StrV(<<"Q", "1">>),
            <<"doc", "1", ".txt">>))}

Init ==
    /\ file \in InitialFiles
    /\ data = NewProgress
    /\ spc = "idle"
    /\ call = NoCall
    /\ ncalls = 0
    /\ crashes = 0
    /\ filings = {}
    /\ holdings = EmptyBag
    /\ wk = [i \in {} |-> Queued]
    /\ queue = <<>>
    /\ agg = AtRest
    /\ runs = 0
    /\ rows1 = <<>>
    /\ missing \in MissingChoices
    /\ FixAtRest

Next ==
    \/ AggStart
    \/ AggStep
    \/ WorkerStep
    \/ Crash

Spec == Init /\ [][Next]_vars

\* the first invocation of a behaviour
AggFirstStart == agg.pc = "init" /\ AggStart

\* one invocation without process kills: the pool runs every task it was
\* given and the parent keeps executing
LiveNext ==
    \/ AggFirstStart
    \/ AggStep
    \/ WorkerStep

LiveSpec == Init /\ [][LiveNext]_vars /\ WF_vars(WorkerStep) /\ WF_vars(AggStep)

(***************************************************************************)
(* Properties of the store specification                                   *)
(***************************************************************************)
\* every (category, key, item) recorded as processed in d
ProcessedItems(d) ==
    {<<"structured_data", <<>>, it>> : it \in SeqToSet(d.structured_data.processed)}
    \cup UNION {{<<"individual_filings", k, it>> :
                    it \in SeqToSet(d.individual_filings[k].processed)} :
                k \in DOMAIN d.individual_filings}

AllLists(d) ==
    {d.structured_data.processed, d.structured_data.failed}
    \cup {d.individual_filings[k].processed : k \in DOMAIN d.individual_filings}
    \cup {d.individual_filings[k].failed : k \in DOMAIN d.individual_filings}

\* the list a mark call c appends to, as it stands in d
AddressedList(d, c) ==
    LET which == IF c.op = "mark_processed" THEN "processed" ELSE "failed"
        key   == MarkKey(c.year, c.quarter)
    IN  IF c.category = "structured_data" THEN d.structured_data[which]
        ELSE IF key \in DOMAIN d.individual_filings
             THEN d.individual_filings[key][which]
             ELSE <<>>

ReloadAgrees ==
    spc = "idle" =>
        /\ LoadSucceeds(file)
        /\ ProcessedItems(load_progress(file)) = ProcessedItems(data)

CountsGrow ==
    \A c \in Categories, yq \in YearQuarterArgs :
        get_processed_count(data', c, yq[1], yq[2])
            >= get_processed_count(data, c, yq[1], yq[2])

\* C4: Progress monotonicity. Over every sequence of mark_processed and
\* mark_failed calls no processed item is ever removed, get_processed_count
\* never decreases for any (category, year, quarter), and whenever a call has
\* returned, a tracker loaded from the file holds exactly the processed items
\* of the in-memory store.
ProgressMonotone ==
    /\ []ReloadAgrees
    /\ [][/\ ProcessedItems(data) \subseteq ProcessedItems(data')
          /\ CountsGrow]_vars

\* C4 witness: two calls have returned, something is processed under a
\* per-quarter key, and the last call was a mark_failed
ProgressMonotoneWitness ==
    /\ spc = "idle"
    /\ ncalls >= 2
    /\ call.op = "mark_failed"
    /\ \E x \in ProcessedItems(data) : x[1] = "individual_filings"

\* C5: Crash durability. When the process is killed at any step of
\* save_progress, the next load of the file succeeds and yields either the
\* state being written or the state before the interrupted call, so no
\* earlier processed item is lost.
CrashKeepsProgress ==
    spc = "down" =>
        /\ LoadSucceeds(file)
        /\ load_progress(file) \in {data, call.prev}

\* C7: Read-your-writes. After mark_processed(category, year, quarter, item)
\* has returned, is_processed with the same four arguments is true and
\* get_processed_count(category, year, quarter) counts the item.
ReadYourWrites ==
    (spc = "idle" /\ call.op = "mark_processed") =>
        /\ is_processed(data, call.category, call.year, call.quarter, call.item)
        /\ get_processed_count(data, call.category, call.year, call.quarter) >= 1

NoDuplicates ==
    \A l \in AllLists(data) : Cardinality(SeqToSet(l)) = Len(l)

\* C8: Idempotent marking. Starting from the empty store, every processed and
\* failed list holds each item at most once, and a mark_processed or
\* mark_failed call whose item is already in the list it addresses leaves the
\* whole store unchanged.
IdempotentMarking ==
    /\ []NoDuplicates
    /\ [][(/\ spc = "idle"
           /\ spc' = "saving"
           /\ InList(call'.item, AddressedList(data, call'))) => data' = data]_vars

\* C8 witness: a call that found its item already present has returned
IdempotentMarkingWitness ==
    /\ spc = "idle"
    /\ call.op # "none"
    /\ call.prev = data
    /\ InList(call.item, AddressedList(data, call))

(***************************************************************************)
(* Properties of the ingestion run                                         *)
(***************************************************************************)
\* the work items of the requested range
WorkUniverse ==
    {<<STRUCTURED_DATA_DIR[1], QuarterName(yq[1], yq[2])>> :
        yq \in SeqToSet(structured_data_quarters)}
    \cup UNION {{<<INDIVIDUAL_FILINGS_DIR[1], QuarterName(yq[1], yq[2]), f>> :
                    f \in {g \in ListDir(QuarterName(yq[1], yq[2])) : EndsWithTxt(g)}} :
                yq \in SeqToSet(individual_filing_quarters)}

\* item i is in the processed (failed) list of its category and quarter
ItemListed(d, which, i) ==
    IF IsFolder(i) THEN InList(Basename(i), d.structured_data[which])
    ELSE /\ Basename(Dirname(i)) \in DOMAIN d.individual_filings
         /\ InList(Basename(i), d.individual_filings[Basename(Dirname(i))][which])

\* the holdings rows one successful ingestion of item i persists
ItemHoldings(i) ==
    IF IsFolder(i)
    THEN {HoldingRow(r.accession_number, r) :
             r \in {x \in InfotableRows(i) : x.accession_number \in SubmissionRows(i)}}
    ELSE {HoldingRow(r.accession_number, r) : r \in parse_xml_filing(i).holdings}

\* C1: Idempotence. When process_13f_data has run to completion twice over
\* the same inputs, with no process killed and no item failing in either run,
\* filings and holdings hold as many rows as after the first run, whatever
\* the interleaving of workers and aggregator was.
Idempotence ==
    (/\ agg.pc = "returned"
     /\ runs = 2
     /\ crashes = 0
     /\ rows1 # <<>>
     /\ rows1[2]
     /\ AllSucceeded) => RowCounts = rows1[1]

\* C2: Crash-resume. After a run was killed at some step and the pipeline was
\* re-run to completion, no holdings row is present twice, and every item
\* reported processed has its holdings rows persisted.
CrashResume ==
    (agg.pc = "returned" /\ crashes >= 1) =>
        /\ \A r \in BagToSet(holdings) : CopiesIn(r, holdings) = 1
        /\ \A i \in WorkUniverse :
              ItemListed(data, "processed", i) =>
                  \A r \in ItemHoldings(i) : BagIn(r, holdings)

\* C3: Partial-failure isolation. When process_13f_data has returned from a
\* run in which exactly one dispatched item's transaction threw and was
\* rolled back and every other dispatched item succeeded, the store reports
\* the failing item as not processed and every other item as processed.
PartialFailureIsolation ==
    (/\ agg.pc = "returned"
     /\ Cardinality({i \in Dispatched : wk[i].pc = "rolledback"}) = 1
     /\ \A i \in Dispatched : wk[i].pc \in {"rolledback", "done"}) =>
        \A i \in Dispatched :
            ItemListed(data, "processed", i) <=> wk[i].pc = "done"

\* C6: Retry policy. At the start of a run a work item of the requested range
\* is on the remaining-work list if and only if it is not in the processed
\* list; being in a failed list changes nothing.
RetryPolicy ==
    (agg.pc \in {"loop", "empty"} /\ agg.completed = 0) =>
        \A i \in WorkUniverse :
            i \in Dispatched <=> ~ItemListed(data, "processed", i)

\* C6 witness: a run starts with a failed-listed item dispatched again and a
\* processed item left out
RetryPolicyWitness ==
    /\ agg.pc = "loop"
    /\ agg.completed = 0
    /\ \E i \in Dispatched : ItemListed(data, "failed", i)
    /\ \E i \in WorkUniverse : ItemListed(data, "processed", i) /\ i \notin Dispatched

\* C9: Aggregator termination. When every dispatched worker call returns, the
\* aggregator loop exits and process_13f_data returns, also when items failed
\* and posted nothing; and the loop is left only with the acknowledged count
\* equal to the number of dispatched items, or after an empty receive with
\* both result handles ready.
AggregatorTerminates ==
    /\ (agg.pc = "loop") ~> (agg.pc = "returned")
    /\ [][(agg.pc \in {"loop", "empty"} /\ agg'.pc = "join") =>
            \/ agg.completed = agg.total
            \/ /\ agg.pc = "empty"
               /\ \A i \in Dispatched : wk[i].pc \in Returned]_vars

\* C9 witness: the run returned although an item failed and fewer events than
\* dispatched items were acknowledged
AggregatorTerminatesWitness ==
    /\ agg.pc = "returned"
    /\ agg.completed < agg.total
    /\ \E i \in Dispatched : wk[i].pc \in {"rolledback", "aborted", "parse_failed"}

\* C10: Single writer. A step of a worker never changes the in-memory store
\* or the progress file: every mutation and every write is a step of the
\* parent process.
SingleWriter ==
    [][(wk' # wk /\ agg' = agg) => (file' = file /\ data' = data)]_vars

\* C10 witness: a worker has posted its event and returned while the parent
\* is inside save_progress for it
SingleWriterWitness ==
    /\ agg.pc = "saving"
    /\ \E i \in Dispatched : wk[i].pc = "done" /\ ItemListed(data, "processed", i)

\* C11: Enumeration failure. When the directory of a requested per-document
\* quarter does not exist, that quarter contributes no work item and
\* process_13f_data does not raise: every item of the other quarters is
\* dispatched (no process is killed and the progress file parses).
EnumerationFailure ==
    (missing # {} /\ crashes = 0 /\ runs = 1) =>
        /\ agg.pc # "raised"
        /\ WorkUniverse \subseteq DOMAIN wk

(***************************************************************************)
(* clean_cusips: identifiers are sequences of one-character strings        *)
(***************************************************************************)
\* string.ascii_uppercase
ascii_uppercase ==
    <<"A", "B", "C", "D", "E", "F", "G", "H", "I", "J", "K", "L", "M",
      "N", "O", "P", "Q", "R", "S", "T", "U", "V", "W", "X", "Y", "Z">>

\* string.digits
digits == <<"0", "1", "2", "3", "4", "5", "6", "7", "8", "9">>

\* c.isdigit()
IsDigit(c) == c \in SeqToSet(digits)

\* c.isalnum(), for the upper-cased characters clean_cusips works on
IsAlnum(c) == c \in SeqToSet(ascii_uppercase) \cup SeqToSet(digits)

\* position of c in alphabet, counted from 0 (ord(c) - ord(alphabet[0]))
Ord(alphabet, c) == (CHOOSE k \in 1..Len(alphabet) : alphabet[k] = c) - 1

\* "int(c) if c.isdigit() else (ord(c) - ord("A") + 10)"
CharValue(c) == IF IsDigit(c) THEN Ord(digits, c) ELSE Ord(ascii_uppercase, c) + 10

\* mutant: doubles the values at the even positions
WeightedEven(i, value) == IF i % 2 = 0 THEN value * 2 ELSE value

\* "if i % 2 == 1: value *= 2", i counted from 0
Weighted(i, value) == IF i % 2 = 1 THEN value * 2 ELSE value

\* "total += sum(divmod(value, 10))" over the first n characters
RECURSIVE CheckTotal(_, _)
CheckTotal(cusip, n) ==
    IF n = 0 THEN 0
    ELSE LET value == Weighted(n - 1, CharValue(cusip[n]))
         IN  CheckTotal(cusip, n - 1) + (value \div 10) + (value % 10)

ValueError == <<"ValueError">>

\* compute_check_digit(cusip): the check digit as a string, or ValueError
compute_check_digit(cusip) ==
    IF Len(cusip) # 8 \/ \E k \in 1..Len(cusip) : ~IsAlnum(cusip[k])
    THEN ValueError
    ELSE <<digits[((10 - (CheckTotal(cusip, 8) % 10)) % 10) + 1]>>

(***************************************************************************)
(* compute_check_digit applied to one stem                                 *)
(***************************************************************************)
NumStemChars == 3   \* characters the exhaustively enumerated stems are made of

\* the stem of 037833100, the identifier of the spec's examples
AppleStem == <<"0", "3", "7", "8", "3", "3", "1", "0">>

\* the characters of the enumerated stems: the largest letter and digit first
StemChars == SubSeq(<<"Z", "9", "A", "5", "0", "K">>, 1, NumStemChars)

\* the arguments tried: every stem over StemChars, and the example stem with
\* any one position replaced by any letter or digit
Stems ==
    {s \in [1..8 -> SeqToSet(StemChars)] : TRUE}
    \cup {[AppleStem EXCEPT ![k] = c] :
              k \in 1..8, c \in SeqToSet(ascii_uppercase \o digits)}

DigitInit ==
    /\ StoreAtRest
    /\ RunAtRest
    /\ CleanAtRest
    /\ stem \in Stems
    /\ digit = <<>>

\* one call compute_check_digit(stem)
ComputeCheckDigit ==
    /\ digit = <<>>
    /\ digit' = compute_check_digit(stem)
    /\ UNCHANGED <<storeVars, runVars, missing, ftd, tbl, cur, cpc, fixes, stem>>

DigitNext == ComputeCheckDigit

DigitSpec == DigitInit /\ [][DigitNext]_vars

\* the sum of the decimal digits of n
RECURSIVE DigitSum(_)
DigitSum(n) == IF n < 10 THEN n ELSE (n % 10) + DigitSum(n \div 10)

\* the value of a character: its place in 0..9, A..Z
PlaceValue(c) == CHOOSE v \in 0..35 : (digits \o ascii_uppercase)[v + 1] = c

\* the weighted digit sum of a stem: values at the odd positions, counted
\* from 0, are doubled before their digits are summed
RECURSIVE WeightedDigitSum(_)
WeightedDigitSum(s) ==
    IF s = <<>> THEN 0
    ELSE LET i == Len(s) - 1
             v == PlaceValue(s[Len(s)])
         IN  WeightedDigitSum(SubSeq(s, 1, i))
             + DigitSum(IF i % 2 = 1 THEN 2 * v ELSE v)

\* C12: Checksum correctness. For every 8-character stem of digits and
\* upper-case letters, compute_check_digit returns the one digit d with
\* (weighted digit sum + d) = 0 modulo 10; for the stem 03783310 it is "0".
ChecksumCorrect ==
    digit # <<>> =>
        /\ \E d \in 0..9 :
              /\ digit = <<digits[d + 1]>>
              /\ (WeightedDigitSum(stem) + d) % 10 = 0
        /\ stem = AppleStem => digit = <<"0">>

\* C12 witness: the digit of the example stem has been computed
ChecksumCorrectWitness == stem = AppleStem /\ digit = <<"0">>

(***************************************************************************)
(* clean_cusips: the short-code repairs                                    *)
(***************************************************************************)
\* n characters "0"
RECURSIVE Zeros(_)
Zeros(n) == IF n <= 0 THEN <<>> ELSE <<"0">> \o Zeros(n - 1)

\* mutant: the codes are padded to 8 characters
zfill8(cusip) == Zeros(8 - Len(cusip)) \o cusip

\* pl.col("cusip").str.zfill(9)
zfill(cusip) == Zeros(9 - Len(cusip)) \o cusip

\* pl.col("cusip").str.pad_end(9, "0")
pad_end(cusip) == cusip \o Zeros(9 - Len(cusip))

None == <<"None">>

\* the characters of "for char in string.ascii_uppercase + string.digits"
LoopChars == ascii_uppercase \o digits

\* mutant: the suffix attempt made for every character of the loop
SuffixCharsAll == LoopChars

\* the characters the suffix attempt is made with: the attempt follows the
\* for loop, so char is the last character the loop assigned
SuffixChars == <<LoopChars[Len(LoopChars)]>>

\* stem + compute_check_digit(stem)
WithCheckDigit(stem8) == stem8 \o compute_check_digit(stem8)

\* the first element of candidates that is in the reference set, or None
RECURSIVE FirstIn(_, _)
FirstIn(candidates, ftd_cusips) ==
    IF candidates = <<>> THEN None
    ELSE IF Head(candidates) \in ftd_cusips THEN Head(candidates)
    ELSE FirstIn(Tail(candidates), ftd_cusips)

\* mutant: find_valid_cusips without its branch for 8-character codes
find_valid_cusips7(cusip, ftd_cusips) ==
    IF Len(cusip) = 7
    THEN FirstIn([k \in 1..Len(LoopChars) |-> WithCheckDigit(<<LoopChars[k]>> \o cusip)]
                 \o [k \in 1..Len(SuffixChars) |-> WithCheckDigit(cusip \o <<SuffixChars[k]>>)],
                 ftd_cusips)
    ELSE None

\* find_valid_cusips(cusip, ftd_cusips); the codes it is called with are
\* alphanumeric (CheckDigitRaises covers the others)
find_valid_cusips(cusip, ftd_cusips) ==
    IF Len(cusip) = 8
    THEN FirstIn(<<WithCheckDigit(cusip)>>, ftd_cusips)
    ELSE IF Len(cusip) = 7
    THEN FirstIn([k \in 1..Len(LoopChars) |-> WithCheckDigit(<<LoopChars[k]>> \o cusip)]
                 \o [k \in 1..Len(SuffixChars) |-> WithCheckDigit(cusip \o <<SuffixChars[k]>>)],
                 ftd_cusips)
    ELSE None

\* mutant: only the branch for 8-character codes lets the exception out
CheckDigitRaises8(cusip) ==
    /\ Len(cusip) = 8
    /\ \E k \in 1..Len(cusip) : ~IsAlnum(cusip[k])

\* compute_check_digit raises inside find_valid_cusips(cusip, ...)
CheckDigitRaises(cusip) ==
    /\ Len(cusip) \in {7, 8}
    /\ \E k \in 1..Len(cusip) : ~IsAlnum(cusip[k])

(***************************************************************************)
(* clean_cusips: the inputs. Ingestion stores cusip, titleofclass and      *)
(* nameofissuer stripped and upper-cased, so clean_cusips' strip_chars and *)
(* to_uppercase leave the values it reads as they are.                     *)
(***************************************************************************)
MaxRows == 2   \* rows of table holdings when post_process_data is called

Apple     == <<"0", "3", "7", "8", "3", "3", "1", "0", "0">>
AppleLeft == <<"3", "7", "8", "3", "3", "1", "0", "0">>   \* Apple without its leading zero
AppleSum  == <<"3", "7", "8", "3", "3", "1", "0", "0", "3">>   \* AppleLeft with its check digit
Code7     == <<"2", "3", "4", "5", "6", "7", "X">>
PrefixA   == <<"A", "2", "3", "4", "5", "6", "7", "X", "7">>   \* "A" + Code7 + check digit
Suffix9   == <<"2", "3", "4", "5", "6", "7", "X", "9", "1">>   \* Code7 + "9" + check digit
SuffixB   == <<"2", "3", "4", "5", "6", "7", "X", "B", "6">>   \* Code7 + "B" + check digit
Malformed == <<"2", "3", "4", "5", "-", "6", "X">>   \* a 7-character code with a character that is not alphanumeric
Com       == <<"C", "O", "M">>

\* the codes ftd_data.csv may list; one of them is not 9 characters long
RefPool == {Apple, AppleSum, PrefixA, Suffix9, SuffixB, Com}

Row(c, t, n) == [cusip |-> c, titleofclass |-> t, nameofissuer |-> n]

\* the distinct holdings rows a table is made of
RowPool ==
    <<Row(Com, Apple, <<"A", "P", "P", "L", "E", " ", "I", "N", "C">>),
      Row(<<"A", "P", "P", "L", "E">>, Com, Apple),
      Row(Com, AppleSum, PrefixA),
      Row(AppleLeft, Com, <<"A", "P", "P", "L", "E", " ", "I", "N", "C">>),
      Row(<<"0", "3", "7", "8", "3", "3", "1", "0">>, <<"C", "O", "M", "M", "O", "N">>, <<"A", "P", "P", "L", "E", " ", "I", "N", "C">>),
      Row(Code7, <<"C", "L", " ", "A">>, <<"X", " ", "C", "O", "R", "P">>),
      Row(<<"1", "2", "3", "4", "5">>, <<"C", "O", "M", "M", "O", "N">>, <<"Y", " ", "C", "O", "R", "P">>),
      Row(<<"5", "9", "4", "9", "1", "8", "1", "0", "4">>, <<"C", "O", "M", "M", "O", "N">>, <<"M", "I", "C", "R", "O", "S", "O", "F", "T">>),
      Row(Malformed, <<"C", "L", " ", "A">>, <<"X", " ", "C", "O", "R", "P">>)>>

Tables ==
    {[i \in S |-> RowPool[i]] :
        S \in {T \in SUBSET (1..Len(RowPool)) : Cardinality(T) <= MaxRows}}

(***************************************************************************)
(* clean_cusips: the statements                                            *)
(***************************************************************************)
\* df: SELECT DISTINCT cusip, titleofclass, nameofissuer FROM holdings
DistinctRows(rows) == {rows[i] : i \in DOMAIN rows}

cusips_in_titleofclass(rows, ftd_cusips) ==
    {r \in DistinctRows(rows) : r.titleofclass \in ftd_cusips}

cusips_in_nameofissuer(rows, ftd_cusips) ==
    {r \in DistinctRows(rows) : r.nameofissuer \in ftd_cusips}

\* mutant: the first UPDATE without its WHERE clause
UpdateTitleAll(rows, keys) ==
    [i \in DOMAIN rows |->
        [rows[i] EXCEPT !.cusip = rows[i].titleofclass,
                        !.titleofclass = rows[i].cusip]]

\* UPDATE holdings SET cusip = titleofclass, titleofclass = cusip
\* WHERE titleofclass IN keys; the right-hand sides read the row as it was
UpdateTitle(rows, keys) ==
    [i \in DOMAIN rows |->
        IF rows[i].titleofclass \in keys
        THEN [rows[i] EXCEPT !.cusip = rows[i].titleofclass,
                             !.titleofclass = rows[i].cusip]
        ELSE rows[i]]

\* UPDATE holdings SET cusip = nameofissuer, nameofissuer = titleofclass,
\* titleofclass = cusip WHERE nameofissuer IN keys
UpdateName(rows, keys) ==
    [i \in DOMAIN rows |->
        IF rows[i].nameofissuer \in keys
        THEN [rows[i] EXCEPT !.cusip = rows[i].nameofissuer,
                             !.nameofissuer = rows[i].titleofclass,
                             !.titleofclass = rows[i].cusip]
        ELSE rows[i]]

df_remaining(rows, ftd_cusips) ==
    {r \in DistinctRows(rows) :
        r.titleofclass \notin ftd_cusips /\ r.nameofissuer \notin ftd_cusips}

\* the unique cusips of df_remaining shorter than 9 characters
df_cusips(rows, ftd_cusips) ==
    {r.cusip : r \in {x \in df_remaining(rows, ftd_cusips) : Len(x.cusip) < 9}}

\* left_matched: the codes whose zfill(9) form is in the reference set
LeftMatched(cs, ftd_cusips) == {c \in cs : zfill(c) \in ftd_cusips}

\* mutant: the codes matched in step 1 go on to the later steps as well
LeftUnmatchedAll(cs, ftd_cusips) == cs

\* df_cusips_remaining after "1. Check left padding"
LeftUnmatched(cs, ftd_cusips) == {c \in cs : zfill(c) \notin ftd_cusips}

\* right_matched: the codes whose pad_end(9, "0") form is in the set
RightMatched(cs, ftd_cusips) == {c \in cs : pad_end(c) \in ftd_cusips}

\* df_cusips_remaining after "2. Check right padding"
RightUnmatched(cs, ftd_cusips) == {c \in cs : pad_end(c) \notin ftd_cusips}

\* a frame with columns cusip and fixed_cusip, as a list of pairs; fixed
\* gives the fixed_cusip of each code
Frame(cs, fixed) == LET keys == SetToSeq(cs)
                    IN  [k \in 1..Len(keys) |-> <<keys[k], fixed[keys[k]]>>]

\* all_fixes: left_matched, right_matched, checksum_matched and the rest
all_fixes(rows, ftd_cusips) ==
    LET all   == df_cusips(rows, ftd_cusips)
        rest1 == LeftUnmatched(all, ftd_cusips)
        rest2 == RightUnmatched(rest1, ftd_cusips)
        found == [c \in rest2 |-> find_valid_cusips(c, ftd_cusips)]
    IN  Frame(LeftMatched(all, ftd_cusips), [c \in all |-> zfill(c)])
        \o Frame(RightMatched(rest1, ftd_cusips), [c \in rest1 |-> pad_end(c)])
        \o Frame({c \in rest2 : found[c] # None}, found)
        \o Frame({c \in rest2 : found[c] = None}, [c \in rest2 |-> zfill(c)])

\* map_elements(find_valid_cusips) raises on one of the codes it is given
FixesRaise(rows, ftd_cusips) ==
    \E c \in RightUnmatched(LeftUnmatched(df_cusips(rows, ftd_cusips), ftd_cusips),
                             ftd_cusips) : CheckDigitRaises(c)

\* cusip_fixes = dict(zip(all_fixes["cusip"], all_fixes["fixed_cusip"])):
\* a key listed twice keeps the value listed last
cusip_fixes(pairs) ==
    [c \in {pairs[k][1] : k \in 1..Len(pairs)} |->
        LET last == CHOOSE k \in 1..Len(pairs) :
                        /\ pairs[k][1] = c
                        /\ \A j \in k + 1..Len(pairs) : pairs[j][1] # c
        IN  pairs[last][2]]

\* UPDATE holdings SET cusip = CASE cusip WHEN old THEN new ... ELSE cusip END
\* WHERE cusip IN keys
UpdateShort(rows, map) ==
    [i \in DOMAIN rows |->
        IF rows[i].cusip \in DOMAIN map
        THEN [rows[i] EXCEPT !.cusip = map[rows[i].cusip]]
        ELSE rows[i]]

\* "WHERE ... IN %s" with an empty tuple: psycopg2 renders "IN ()", which
\* the server rejects as a syntax error
EmptyIn(keys) == keys = {}

(***************************************************************************)
(* post_process_data from its call of clean_cusips on                      *)
(***************************************************************************)
At(pc) == [pc |-> pc, err |-> "none"]

\* post_process_data has committed its deletions and calls clean_cusips
CleanInit ==
    /\ StoreAtRest
    /\ RunAtRest
    /\ ftd \in SUBSET RefPool
    /\ tbl \in Tables
    /\ cur = tbl
    /\ cpc = At("called")
    /\ fixes = <<>>
    /\ stem = <<>>
    /\ digit = <<>>

\* a statement inside the try block raised
Raised(statement) == [pc |-> "failed", err |-> statement]

\* reference set and df loaded, first UPDATE
CleanSwapTitle ==
    /\ cpc = At("called")
    /\ LET keys == {r.titleofclass : r \in cusips_in_titleofclass(tbl, ftd)}
       IN  IF EmptyIn(keys)
           THEN cpc' = Raised("title") /\ cur' = cur
           ELSE cpc' = At("title_swapped") /\ cur' = UpdateTitle(cur, keys)
    /\ UNCHANGED <<storeVars, runVars, missing, ftd, tbl, fixes, stem, digit>>

\* mutant: the column-swap stage commits its own batch
CleanSwapNameCommit ==
    /\ cpc = At("title_swapped")
    /\ LET keys == {r.nameofissuer : r \in cusips_in_nameofissuer(tbl, ftd)}
       IN  IF EmptyIn(keys)
           THEN cpc' = Raised("name") /\ cur' = cur /\ tbl' = tbl
           ELSE /\ cpc' = At("name_swapped")
                /\ cur' = UpdateName(cur, keys)
                /\ tbl' = UpdateName(cur, keys)
    /\ UNCHANGED <<storeVars, runVars, missing, ftd, fixes, stem, digit>>

\* second UPDATE
CleanSwapName ==
    /\ cpc = At("title_swapped")
    /\ LET keys == {r.nameofissuer : r \in cusips_in_nameofissuer(tbl, ftd)}
       IN  IF EmptyIn(keys)
           THEN cpc' = Raised("name") /\ cur' = cur
           ELSE cpc' = At("name_swapped") /\ cur' = UpdateName(cur, keys)
    /\ UNCHANGED <<storeVars, runVars, missing, ftd, tbl, fixes, stem, digit>>

\* the four steps that build all_fixes
CleanComputeFixes ==
    /\ cpc = At("name_swapped")
    /\ IF FixesRaise(tbl, ftd)
       THEN cpc' = Raised("short") /\ fixes' = fixes
       ELSE cpc' = At("fixes_computed") /\ fixes' = all_fixes(tbl, ftd)
    /\ UNCHANGED <<storeVars, runVars, missing, ftd, tbl, cur, stem, digit>>

\* third UPDATE
CleanUpdateShort ==
    /\ cpc = At("fixes_computed")
    /\ IF EmptyIn(DOMAIN cusip_fixes(fixes))
       THEN cpc' = Raised("short") /\ cur' = cur
       ELSE cpc' = At("short_fixed") /\ cur' = UpdateShort(cur, cusip_fixes(fixes))
    /\ UNCHANGED <<storeVars, runVars, missing, ftd, tbl, fixes, stem, digit>>

\* conn.commit(), and clean_cusips returns
CleanCommit ==
    /\ cpc = At("short_fixed")
    /\ tbl' = cur
    /\ cpc' = At("committed")
    /\ UNCHANGED <<storeVars, runVars, missing, ftd, cur, fixes, stem, digit>>

\* the statement about to run, as the source of a database failure
NextStatement(pc) ==
    CASE pc = "called"         -> "db_title"
      [] pc = "title_swapped"  -> "db_name"
      [] pc = "name_swapped"   -> "db_short"
      [] pc = "fixes_computed" -> "db_short"
      [] pc = "short_fixed"    -> "db_commit"

\* the database or the connection fails in the statement about to run
CleanDbError ==
    /\ cpc.pc \in {"called", "title_swapped", "name_swapped", "fixes_computed",
                   "short_fixed"}
    /\ cpc' = Raised(NextStatement(cpc.pc))
    /\ UNCHANGED <<storeVars, runVars, missing, ftd, tbl, cur, fixes, stem, digit>>

\* "except Exception as e: conn.rollback()"
CleanRollback ==
    /\ cpc.pc = "failed"
    /\ cur' = tbl
    /\ cpc' = [cpc EXCEPT !.pc = "rolledback"]
    /\ UNCHANGED <<storeVars, runVars, missing, ftd, tbl, fixes, stem, digit>>

\* mutant: the handler of clean_cusips returns instead of raising
CleanSwallow ==
    /\ cpc.pc = "rolledback"
    /\ cpc' = [cpc EXCEPT !.pc = "committed"]
    /\ UNCHANGED <<storeVars, runVars, missing, ftd, tbl, cur, fixes, stem, digit>>

\* "logger.error(...); raise": the exception leaves clean_cusips
CleanReraise ==
    /\ cpc.pc = "rolledback"
    /\ cpc' = [cpc EXCEPT !.pc = "clean_raised"]
    /\ UNCHANGED <<storeVars, runVars, missing, ftd, tbl, cur, fixes, stem, digit>>

\* post_process_data's "except Exception as e: logger.error(...);
\* conn.rollback()", its finally block, and its return
PostCatch ==
    /\ cpc.pc = "clean_raised"
    /\ cur' = tbl
    /\ cpc' = [cpc EXCEPT !.pc = "post_returned"]
    /\ UNCHANGED <<storeVars, runVars, missing, ftd, tbl, fixes, stem, digit>>

\* clean_cusips returned: "CUSIPs cleaned.", the finally block, the return
PostReturn ==
    /\ cpc = At("committed")
    /\ cpc' = At("post_returned")
    /\ UNCHANGED <<storeVars, runVars, missing, ftd, tbl, cur, fixes, stem, digit>>

CleanNext ==
    \/ CleanSwapTitle
    \/ CleanSwapName
    \/ CleanComputeFixes
    \/ CleanUpdateShort
    \/ CleanCommit
    \/ CleanDbError
    \/ CleanRollback
    \/ CleanReraise
    \/ PostCatch
    \/ PostReturn

CleanSpec == CleanInit /\ [][CleanNext]_vars

(***************************************************************************)
(* Properties of the remediation pass                                      *)
(***************************************************************************)
\* the 9-character forms of a 7-character code with one character put in
\* front of it and the check digit appended
PrefixForms(c) ==
    {WithCheckDigit(<<LoopChars[k]>> \o c) : k \in 1..Len(LoopChars)}

\* the same with the character put after the code
SuffixForms(c) ==
    {WithCheckDigit(c \o <<LoopChars[k]>>) : k \in 1..Len(LoopChars)}

\* the checksum-assisted forms of a short code
ChecksumForms(c) ==
    IF Len(c) = 8 THEN {WithCheckDigit(c)}
    ELSE IF Len(c) = 7 THEN PrefixForms(c) \cup SuffixForms(c)
    ELSE {}

\* C13: Short-code repair priority. Every code shorter than 9 characters of
\* the rows left to the short-code stage gets the first fix that applies of:
\* its left-zero-padded form if that is in the reference set, its
\* right-zero-padded form if that is, a checksum-assisted form that is, and
\* otherwise its left-zero-padded form; so a 7-character code whose only
\* match is a checksum-assisted form is repaired to such a form.
RepairPriority ==
    cpc = At("fixes_computed") =>
        LET map == cusip_fixes(fixes)
        IN  /\ DOMAIN map = df_cusips(tbl, ftd)
            /\ \A c \in DOMAIN map :
                  IF zfill(c) \in ftd THEN map[c] = zfill(c)
                  ELSE IF pad_end(c) \in ftd THEN map[c] = pad_end(c)
                  ELSE IF ChecksumForms(c) \cap ftd # {}
                       THEN map[c] \in ChecksumForms(c) \cap ftd
                  ELSE map[c] = zfill(c)

\* C15: Checksum-assisted suffix search. For a 7-character code that no
\* padding and no prefix form matches, each of the 36 characters is tried as
\* a suffix: when a suffix form is in the reference set the code is repaired
\* to a suffix form of the set.
SuffixSearch ==
    cpc = At("fixes_computed") =>
        \A c \in df_cusips(tbl, ftd) :
            (/\ Len(c) = 7
             /\ zfill(c) \notin ftd
             /\ pad_end(c) \notin ftd
             /\ PrefixForms(c) \cap ftd = {}
             /\ SuffixForms(c) \cap ftd # {})
            => cusip_fixes(fixes)[c] \in SuffixForms(c) \cap ftd

\* the run met no failure of the database itself
NoDbError == cpc.err \in {"none", "title", "name", "short"}

\* C14: Column-swap repair. After remediation, every holding whose
\* titleofclass was a reference-set code has that code as cusip and its
\* former cusip as titleofclass, and every holding whose nameofissuer was a
\* reference-set code has that code as cusip, its former titleofclass as
\* nameofissuer and its former cusip as titleofclass.
ColumnSwap ==
    (cpc.pc = "post_returned" /\ NoDbError) =>
        \A i \in DOMAIN tbl :
            /\ RowPool[i].titleofclass \in ftd =>
                  /\ tbl[i].cusip = RowPool[i].titleofclass
                  /\ tbl[i].titleofclass = RowPool[i].cusip
            /\ RowPool[i].nameofissuer \in ftd =>
                  /\ tbl[i].cusip = RowPool[i].nameofissuer
                  /\ tbl[i].nameofissuer = RowPool[i].titleofclass
                  /\ tbl[i].titleofclass = RowPool[i].cusip

\* the table as it was when post_process_data called clean_cusips
Original == [i \in DOMAIN tbl |-> RowPool[i]]

\* the exception came from the short-code stage
ShortStageFailed == cpc.err \in {"short", "db_short"}

\* C16 as stated: Stage-level rollback. A failure in the short-code stage
\* rolls back that stage's batch only: the rows as the column-swap stage left
\* them are what is persisted afterwards.
StageRollback ==
    [][(cpc.pc = "failed" /\ ShortStageFailed /\ cpc'.pc = "rolledback") =>
            tbl' = cur]_vars

\* C16: Pass-level rollback. clean_cusips commits once, after its last
\* update: a failure in the short-code stage rolls back the column-swap
\* repairs of the same run too, so the persisted rows and the rows the
\* connection sees are those of before the call.
PassRollback ==
    (cpc.pc \in {"rolledback", "clean_raised", "post_returned"} /\ ShortStageFailed) =>
        (tbl = Original /\ cur = Original)

\* C16 witness: the short-code stage failed after the column-swap stage had
\* changed rows, and the handler rolled back
PassRollbackWitness ==
    /\ cpc.pc = "rolledback"
    /\ ShortStageFailed
    /\ \E i \in DOMAIN tbl :
          RowPool[i].titleofclass \in ftd \/ RowPool[i].nameofissuer \in ftd
    /\ cur = tbl

\* C17 as stated: Reconciliation failures are fatal. post_process_data does
\* not finish normally when a statement of clean_cusips failed.
FailureFatal == cpc.pc = "post_returned" => cpc.err = "none"

\* C17: Reconciliation failures are logged. When a statement of clean_cusips
\* fails, the changes are rolled back and the exception is re-raised out of
\* clean_cusips; its caller post_process_data catches it, rolls back, and
\* returns normally with nothing persisted.
FailureLogged ==
    [][/\ cpc.pc = "failed" =>
            (cpc'.pc = "rolledback" /\ cur' = tbl /\ tbl' = tbl)
       /\ cpc.pc = "rolledback" => cpc'.pc = "clean_raised"
       /\ cpc.pc = "clean_raised" =>
            (cpc'.pc = "post_returned" /\ cpc'.err = cpc.err /\ tbl' = tbl)]_vars

\* C17 witness: post_process_data has returned after a statement failed
FailureLoggedWitness ==
    /\ cpc.pc = "post_returned"
    /\ cpc.err # "none"
    /\ tbl = Original

\* every code of the reference set is 9 characters long
NineCharReferenceSet == \A c \in ftd : Len(c) = 9

\* C20: Stage disjointness. With a reference set of 9-character codes, the
\* third UPDATE changes no field of a row the column-swap stage changed, and
\* no code of all_fixes is listed a second time with another value.
StageDisjoint ==
    [][(NineCharReferenceSet /\ cpc = At("fixes_computed")
                             /\ cpc' = At("short_fixed")) =>
            /\ \A i \in DOMAIN cur : cur[i] # RowPool[i] => cur'[i] = cur[i]
            /\ \A j, k \in 1..Len(fixes) :
                  fixes[j][1] = fixes[k][1] => fixes[j][2] = fixes[k][2]]_vars

\* C20 witness: the third UPDATE has run on a table with a swapped row and a
\* repaired short code, the reference set holding a left-pad match whose
\* code has a checksum form in the set as well
StageDisjointWitness ==
    /\ NineCharReferenceSet
    /\ cpc = At("short_fixed")
    /\ \E i \in DOMAIN cur : RowPool[i].titleofclass \in ftd /\ cur[i] # RowPool[i]
    /\ \E k \in 1..Len(fixes) :
          /\ fixes[k][2] = zfill(fixes[k][1])
          /\ fixes[k][2] \in ftd
          /\ ChecksumForms(fixes[k][1]) \cap ftd # {}

(***************************************************************************)
(* Properties of the two insert paths                                      *)
(***************************************************************************)
\* C18: Per-document duplicate handling. process_individual_filing inserts
\* holdings only when its filing insert returned a new id: for a document
\* whose accession number is already in filings the insert adds no filing,
\* no holding is inserted, the commit changes neither table, and the worker
\* still puts its completion event and returns.
DuplicateDocument ==
    [][\A i \in DOMAIN wk \cap DOMAIN wk' : ~IsFolder(i) =>
          /\ (/\ wk[i].pc = "connected" /\ wk'[i].pc = "filings_in"
               /\ parse_xml_filing(i).accession_number \in filings)
              => wk'[i].txF = {}
          /\ (wk[i].pc = "filings_in" /\ wk'[i].pc = "holdings_in")
              => (wk'[i].txH # EmptyBag => wk[i].txF # {})
          /\ (wk[i].pc = "filings_in" /\ wk[i].txF = {})
              => wk'[i].pc \in {"filings_in", "holdings_in", "queued"}
          /\ (wk[i].pc = "holdings_in" /\ wk'[i].pc = "committed" /\ wk[i].txF = {})
              => (filings' = filings /\ holdings' = holdings)
          /\ (wk[i].pc = "committed" /\ wk'[i].pc \notin {"committed", "queued"})
              => (wk'[i].pc = "done" /\ queue' = Append(queue, Event(i)))]_vars

\* C18 witness: a document whose accession number is already committed has
\* passed both inserts with nothing to commit
DuplicateDocumentWitness ==
    \E i \in DOMAIN wk :
        /\ ~IsFolder(i)
        /\ wk[i].pc = "holdings_in"
        /\ parse_xml_filing(i).accession_number \in filings
        /\ wk[i].txF = {}
        /\ wk[i].txH = EmptyBag

\* C19: Bulk-path referential integrity. Every holdings row
\* process_structured_data inserts carries the id of a filings row that is
\* committed or inserted in the same transaction; an infotable row whose
\* filing cannot be resolved is left out and the folder goes on to commit;
\* a filing already present is not inserted again.
ReferentialIntegrity ==
    /\ \A r \in BagToSet(holdings) : r.filing_id \in filings
    /\ \A i \in DOMAIN wk : IsFolder(i) =>
          /\ \A r \in BagToSet(wk[i].txH) : r.filing_id \in filings \cup wk[i].txF
          /\ wk[i].txF \cap filings = {}
          /\ wk[i].pc = "holdings_in" =>
                \A x \in InfotableRows(i) :
                    BagIn(HoldingRow(x.accession_number, x), wk[i].txH)
                    <=> x.accession_number \in filings \cup wk[i].txF

\* C19 witness: a folder whose filing is already committed has inserted its
\* resolvable holdings and left out the row of an unknown filing
ReferentialIntegrityWitness ==
    \E i \in DOMAIN wk :
        /\ IsFolder(i)
        /\ wk[i].pc = "holdings_in"
        /\ SubmissionRows(i) \subseteq filings
        /\ wk[i].txF = {}
        /\ wk[i].txH # EmptyBag
        /\ \E x \in InfotableRows(i) : x.accession_number \notin filings

(***************************************************************************)
(* More properties of the remediation pass                                 *)
(***************************************************************************)
\* the short codes neither zero-padded form of which is in the reference set
Unresolved == {c \in df_cusips(tbl, ftd) : zfill(c) \notin ftd /\ pad_end(c) \notin ftd}

InRun == agg.pc \in {"loop", "saving", "empty", "join", "final_saving", "returned"}

\* the completion events waiting on progress_queue name item i
EventQueued(i) == \E k \in 1..Len(queue) : queue[k].file_path = i

\* the filings rows of item i are in the committed table
FilingsCommitted(i) ==
    IF IsFolder(i) THEN SubmissionRows(i) \subseteq filings
    ELSE parse_xml_filing(i).accession_number \in filings

\* C22: No lost completion. When process_13f_data has returned, every event
\* a worker put on the queue has been consumed and its item marked processed,
\* whatever the interleaving of the workers and the aggregator was.
NoLostCompletion ==
    agg.pc = "returned" =>
        /\ queue = <<>>
        /\ \A i \in Dispatched :
              wk[i].pc = "done" => ItemListed(data, "processed", i)

\* C23: Processed implies committed. During a run, an item of the run that is
\* marked processed, or whose event is on the queue, belongs to a worker call
\* that committed its transaction and returned; an item whose parse or
\* connection failed or whose transaction was rolled back has no event and is
\* not marked processed.
ProcessedImpliesCommitted ==
    InRun =>
        \A i \in DOMAIN wk :
            /\ (ItemListed(data, "processed", i) \/ EventQueued(i)) =>
                  wk[i].pc = "done" /\ FilingsCommitted(i)
            /\ wk[i].pc \in {"parse_failed", "aborted", "rolledback"} =>
                  ~EventQueued(i) /\ ~ItemListed(data, "processed", i)

\* C23 witness: one item of the run is marked processed while another one,
\* rolled back, is not
ProcessedImpliesCommittedWitness ==
    /\ agg.pc = "returned"
    /\ \E i \in DOMAIN wk : ItemListed(data, "processed", i) /\ wk[i].pc = "done"
    /\ \E i \in DOMAIN wk : wk[i].pc = "rolledback"

\* C24: Per-item atomicity. A worker step that ends in a rollback leaves the
\* filings and holdings tables as they were and drops the rows of its open
\* transaction; the tables change only by one worker's commit, which adds all
\* the rows of that worker's transaction at once.
PerItemAtomicity ==
    [][/\ \A i \in DOMAIN wk :
            (i \in DOMAIN wk' /\ wk[i].pc # "rolledback" /\ wk'[i].pc = "rolledback") =>
                /\ filings' = filings
                /\ holdings' = holdings
                /\ wk'[i].txF = {}
                /\ wk'[i].txH = EmptyBag
       /\ (filings' # filings \/ holdings' # holdings) =>
            \E i \in DOMAIN wk :
                /\ wk[i].pc = "holdings_in"
                /\ wk'[i].pc = "committed"
                /\ filings' = filings \cup wk[i].txF
                /\ holdings' = holdings (+) wk[i].txH]_vars

\* C24 witness: an item was rolled back after its filings insert, while the
\* tables hold nothing of it
PerItemAtomicityWitness ==
    /\ runs = 1
    /\ crashes = 0
    /\ \E i \in DOMAIN wk :
          /\ wk[i].pc = "rolledback"
          /\ IsFolder(i)
          /\ SubmissionRows(i) \cap filings = {}
    /\ filings # {}

\* C25: No retry inside a run. The task list of a run names no item twice,
\* the acknowledged counter never exceeds the number of dispatched items, a
\* worker call is started only from the pool's queue, and a call that has
\* returned, failed or not, is not started again before the next invocation.
NoRetryInRun ==
    /\ [](/\ \A j, k \in 1..Len(agg.tasks) : agg.tasks[j] = agg.tasks[k] => j = k
          /\ agg.completed <= agg.total
          /\ agg.total = Len(agg.tasks)
          /\ InRun => DOMAIN wk = Dispatched)
    /\ [][(runs' = runs /\ agg'.pc # "dead") =>
            \A i \in DOMAIN wk :
                /\ i \in DOMAIN wk'
                /\ wk[i].pc \in Returned => wk'[i] = wk[i]
                /\ wk'[i].pc = "started" => wk[i].pc \in {"queued", "started"}
                /\ wk'[i].pc = "queued" => wk[i].pc = "queued"]_vars

\* C25 witness: the run returned with a failed item and fewer acknowledged
\* events than dispatched items
NoRetryInRunWitness ==
    /\ agg.pc = "returned"
    /\ agg.total = 2
    /\ agg.completed = 1
    /\ \E i \in Dispatched : wk[i].pc = "rolledback"

\* the entries of the failed lists of a progress structure
FailedItems(d) ==
    {<<<<"structured_data">>, it>> : it \in SeqToSet(d.structured_data.failed)}
    \cup UNION {{<<k, it>> : it \in SeqToSet(d.individual_filings[k].failed)} :
                   k \in DOMAIN d.individual_filings}

\* C28: Failures are never recorded. Within a run no step changes a failed
\* list of the tracker: an invocation loads the failed lists of the progress
\* file, and they stay as loaded through every mark_processed, also for an
\* item that is in the failed list and becomes processed.
FailuresNeverRecorded ==
    [][IF runs' # runs
       THEN LoadSucceeds(file) => FailedItems(data') = FailedItems(load_progress(file))
       ELSE FailedItems(data') = FailedItems(data)]_vars

\* C28 witness: after a run an item is in a failed list and in the processed
\* list of the same key
FailuresNeverRecordedWitness ==
    /\ agg.pc = "returned"
    /\ \E i \in Dispatched :
          /\ ~IsFolder(i)
          /\ ItemListed(data, "failed", i)
          /\ ItemListed(data, "processed", i)

\* ---------------------------------------------------------------------
\* Post-condition, frame and failure cases of the remediation pass
\* ---------------------------------------------------------------------

Untouchable ==
    {i \in DOMAIN tbl : /\ Len(RowPool[i].cusip) >= 9
                        /\ RowPool[i].titleofclass \notin ftd
                        /\ RowPool[i].nameofissuer \notin ftd}

MalformedReached ==
    \E c \in RightUnmatched(LeftUnmatched(df_cusips(Original, ftd), ftd), ftd) :
        /\ Len(c) \in {7, 8}
        /\ \E k \in 1..Len(c) : ~IsAlnum(c[k])

\* C29: Malformed stem aborts the whole pass. When a malformed short code
\* reaches the checksum step, the pass never gets past the computation of the
\* fixes: it fails, is rolled back and re-raised, and the table keeps every
\* row as it was before the pass, column swaps included.
MalformedAborts ==
    MalformedReached =>
        /\ cpc.pc \notin {"fixes_computed", "short_fixed", "committed"}
        /\ tbl = Original
        /\ cpc.pc \in {"rolledback", "clean_raised", "post_returned"} =>
              cur = Original /\ cpc.err # "none"

\* C29 witness: both column swaps were executed, compute_check_digit raised
\* on the malformed code, and the exception left clean_cusips with the table
\* as before
MalformedAbortsWitness ==
    /\ MalformedReached
    /\ cpc = [pc |-> "clean_raised", err |-> "short"]
    /\ cusips_in_titleofclass(Original, ftd) # {}
    /\ cusips_in_nameofissuer(Original, ftd) # {}
    /\ UpdateName(UpdateTitle(Original, ftd), ftd) # Original
    /\ cur = Original
    /\ tbl = Original

\* one of the three key sets of the pass is empty
SomeStageEmpty ==
    \/ cusips_in_titleofclass(Original, ftd) = {}
    \/ cusips_in_nameofissuer(Original, ftd) = {}
    \/ df_cusips(Original, ftd) = {}

\* C30: Nothing-to-repair case. When a swap key set or the fix map is empty,
\* and neither the database fails nor a malformed code is met, clean_cusips
\* has run its updates without error and committed when post_process_data
\* returns.
NothingToRepair ==
    (/\ cpc.pc = "post_returned"
     /\ SomeStageEmpty
     /\ NoDbError
     /\ ~MalformedReached) => cpc.err = "none"

============================================================================
